---- MODULE Spec2Model ----
(***************************************************************************)
(* NeuroAssist: the stroke-assessment page (Home / handlePredict), the     *)
(* symptom form's zod schema and the predictStrokeType flow.               *)
(*                                                                         *)
(* The diagnosis itself is produced by a language model that is sent the   *)
(* prompt of predict-stroke-type.ts.  The flow checks the model's answer   *)
(* against PredictStrokeTypeOutputSchema and nothing else, so the answer   *)
(* is modelled as a nondeterministic choice among the answers the model    *)
(* can give.  The DIAGNOSTIC PROTOCOL of the prompt (Siriraj score, its     *)
(* interpretation, confidence bands) is text the model is sent: no code    *)
(* evaluates it, and no variable of the program holds a method or a score. *)
(*                                                                         *)
(* Numbers are fixed point: minutes and mmHg in tenths, the Siriraj score  *)
(* and the confidence in hundredths.                                       *)
(* An optional value is a set: {} is undefined, {v} is the value v.        *)
(***************************************************************************)
EXTENDS Integers, Sequences, FiniteSets, TLC

VARIABLES
  isLoading,   \* Home: useState(false)
  result,      \* Home: useState(null); {} is null
  toast,       \* title of the toast raised last ("" if none)
  formErrors,  \* fields the zod resolver rejected on the last submit
  pc,          \* where the page's evaluation stands, see Stages
  raw,         \* the raw form record of the page's evaluation ({} if none)
  call,        \* the PredictStrokeTypeInput handlePredict sent ({} if none)
  prompt,      \* the values rendered into the prompt sent to the model ({} if none)
  answer,      \* the object the model answered with ({} if none)
  flowOut,     \* the PredictStrokeTypeOutput the flow returned ({} if none)
  flowErr,     \* why the flow threw: "" | "input" | "model" | "output"
  prev,        \* the previous completed evaluation, kept by the two-run specification
  flights,     \* the calls of predictStrokeType made by other callers than the page
  weight,      \* TpaDosingCalculator: useState('')
  doses,       \* TpaDosingCalculator: useState(null); {} is null
  clipboard    \* ResultsDisplay: the navigator.share and writeText promises pending

vars == <<isLoading, result, toast, formErrors, pc, raw, call, prompt,
          answer, flowOut, flowErr, prev, flights,
          weight, doses, clipboard>>

\* How many other callers invoke predictStrokeType concurrently.
MaxFlights == 2

Flights == 1 .. MaxFlights

\* A caller that has no call under way.
NoFlight ==
  [ stage |-> "none", input |-> {}, prompt |-> {},
    outcome |-> {}, out |-> {}, err |-> "" ]

None == {}
Some(v) == {v}
The(s) == CHOOSE v \in s : TRUE

\* How many fields of an input record differ from the base record.
MaxVaried == 2

----------------------------------------------------------------------------
(* The symptom form's schema.                                              *)

MAX_FILE_SIZE == 5 * 1024 * 1024

ACCEPTED_IMAGE_TYPES == {"image/jpeg", "image/jpg", "image/png"}

\* The files a user can pick: name -> size and MIME type.
FileSize(f) ==
  CASE f = "ct.png" -> 204800
    [] f = "huge.png" -> MAX_FILE_SIZE + 1
    [] OTHER -> 1024

FileType(f) ==
  CASE f = "ct.png" -> "image/png"
    [] f = "huge.png" -> "image/png"
    [] f = "scan.gif" -> "image/gif"
    [] OTHER -> ""

\* JavaScript Number(s) on the strings an input can hold, in tenths; {} is NaN.
NumberOfString(s) ==
  CASE s = "" -> {0}
    [] s = "0" -> {0}
    [] s = "269" -> {2690}
    [] s = "270" -> {2700}
    [] s = "-1" -> {-10}
    [] s = "100" -> {1000}
    [] s = "109.9" -> {1099}
    [] s = "120" -> {1200}
    [] s = "120.1" -> {1201}
    [] s = "150" -> {1500}
    [] OTHER -> {}

\* z.coerce.number(): Number(x); Number(undefined) is NaN.
CoerceNumber(x) == IF x = {} THEN {} ELSE NumberOfString(The(x))

\* z.coerce.number() without the minimum, as the flow's z.number() has none.
CoerceNumberOk(x) == CoerceNumber(x) # {}

\* z.coerce.number({...}).min(0, ...)
CoerceNumberMin0Ok(x) == CoerceNumber(x) # {} /\ The(CoerceNumber(x)) >= 0

ArmWeaknessValues == {"None", "Left", "Right", "Both"}

LocValues == {"Conscious", "Drowsy", "Comatose"}

\* ctScanImage: z.any().refine(size).refine(type).optional()
CtScanImageOk(x) ==
  x = {} \/ (FileSize(The(x)) <= MAX_FILE_SIZE /\ FileType(The(x)) \in ACCEPTED_IMAGE_TYPES)

\* systolicBloodPressure: z.coerce.number().min(0).optional().or(z.literal(''))
SystolicOk(x) == x = {} \/ CoerceNumberMin0Ok(x) \/ x = {""}

\* The union's first member wins: '' is coerced to 0 by it.
SystolicParsed(x) == IF x = {} THEN {} ELSE CoerceNumber(x)

\* symptomSchema with the Siriraj fields checked only when there is no image.
FieldErrorsImageWaives(r) ==
     (IF CtScanImageOk(r.ctScanImage) THEN {} ELSE {"ctScanImage"})
  \cup (IF CoerceNumberMin0Ok(r.timeSinceOnset) THEN {} ELSE {"timeSinceOnset"})
  \cup (IF r.armWeakness # {} /\ The(r.armWeakness) \in ArmWeaknessValues
        THEN {} ELSE {"armWeakness"})
  \cup (IF SystolicOk(r.systolicBloodPressure) THEN {} ELSE {"systolicBloodPressure"})
  \cup (IF r.ctScanImage # {}
           \/ (r.levelOfConsciousness # {} /\ The(r.levelOfConsciousness) \in LocValues)
        THEN {} ELSE {"levelOfConsciousness"})
  \cup (IF r.ctScanImage # {} \/ CoerceNumberMin0Ok(r.diastolicBloodPressure)
        THEN {} ELSE {"diastolicBloodPressure"})

\* The fields of a raw record that symptomSchema rejects.
FieldErrors(r) ==
     (IF CtScanImageOk(r.ctScanImage) THEN {} ELSE {"ctScanImage"})
  \cup (IF CoerceNumberMin0Ok(r.timeSinceOnset) THEN {} ELSE {"timeSinceOnset"})
  \cup (IF r.armWeakness # {} /\ The(r.armWeakness) \in ArmWeaknessValues
        THEN {} ELSE {"armWeakness"})
  \cup (IF SystolicOk(r.systolicBloodPressure) THEN {} ELSE {"systolicBloodPressure"})
  \cup (IF r.levelOfConsciousness # {} /\ The(r.levelOfConsciousness) \in LocValues
        THEN {} ELSE {"levelOfConsciousness"})
  \cup (IF CoerceNumberMin0Ok(r.diastolicBloodPressure)
        THEN {} ELSE {"diastolicBloodPressure"})

\* A boolean field whose omission counts as the symptom being present.
BoolDefaultTrue(x) == IF x = {} THEN TRUE ELSE The(x)

\* The message symptomSchema attaches to diastolicBloodPressure ("" if the
\* field passes): invalid_type_error when Number(x) is NaN, the .min(0)
\* message when it is negative.
DiastolicMessage(x) ==
  IF CoerceNumber(x) = {} THEN "Please enter a valid number."
  ELSE IF The(CoerceNumber(x)) < 0 THEN "Diastolic BP must be a positive number."
  ELSE ""

\* z.boolean().default(false)
BoolDefaultFalse(x) == IF x = {} THEN FALSE ELSE The(x)

\* The SymptomFormValues the resolver hands to onSubmit.
ParsedData(r) ==
  [ ctScanImage |-> r.ctScanImage,
    timeSinceOnset |-> CoerceNumber(r.timeSinceOnset),
    faceDroop |-> BoolDefaultFalse(r.faceDroop),
    speechSlurred |-> BoolDefaultFalse(r.speechSlurred),
    armWeakness |-> r.armWeakness,
    systolicBloodPressure |-> SystolicParsed(r.systolicBloodPressure),
    historyHypertension |-> BoolDefaultFalse(r.historyHypertension),
    historyDiabetes |-> BoolDefaultFalse(r.historyDiabetes),
    historySmoking |-> BoolDefaultFalse(r.historySmoking),
    levelOfConsciousness |-> r.levelOfConsciousness,
    vomiting |-> BoolDefaultFalse(r.vomiting),
    headache |-> BoolDefaultFalse(r.headache),
    diastolicBloodPressure |-> CoerceNumber(r.diastolicBloodPressure) ]

----------------------------------------------------------------------------
(* handlePredict's request.                                                *)

\* toDataURL(file): FileReader.readAsDataURL
DataUrlOf(f) == IF f = "ct.png" THEN "data:image/png;base64,ct" ELSE "data:;base64,"

\* data.systolicBloodPressure ? Number(data.systolicBloodPressure) : undefined
SystolicSent(x) == IF x = {} \/ x = {0} THEN {} ELSE x

\* predictionInput; in a numeric field {} stands for undefined and for NaN.
PredictionInput(d, imageDataUrl) ==
  [ ctScanImage |-> imageDataUrl,
    timeSinceOnset |-> d.timeSinceOnset,
    faceDroop |-> {d.faceDroop},
    speechSlurred |-> {d.speechSlurred},
    armWeakness |-> d.armWeakness,
    systolicBloodPressure |-> SystolicSent(d.systolicBloodPressure),
    historyHypertension |-> {d.historyHypertension},
    historyDiabetes |-> {d.historyDiabetes},
    historySmoking |-> {d.historySmoking},
    levelOfConsciousness |-> d.levelOfConsciousness,
    vomiting |-> {d.vomiting},
    headache |-> {d.headache},
    diastolicBloodPressure |-> d.diastolicBloodPressure ]

----------------------------------------------------------------------------
(* The predictStrokeType flow.                                             *)

StrokeTypes == {"Ischemic", "Hemorrhagic", "Uncertain"}

\* PredictStrokeTypeInputSchema without the fields the Siriraj score added, as in
\* the flow's CT-only version.
InputSchemaOkLegacy(i) ==
  /\ i.timeSinceOnset # {}
  /\ i.faceDroop # {} /\ i.speechSlurred # {}
  /\ i.armWeakness # {} /\ The(i.armWeakness) \in ArmWeaknessValues
  /\ i.historyHypertension # {} /\ i.historyDiabetes # {} /\ i.historySmoking # {}

\* PredictStrokeTypeInputSchema: ctScanImage and systolicBloodPressure are
\* optional, every other field is required; z.number() has no minimum.
InputSchemaOk(i) ==
  /\ i.timeSinceOnset # {}
  /\ i.faceDroop # {} /\ i.speechSlurred # {}
  /\ i.armWeakness # {} /\ The(i.armWeakness) \in ArmWeaknessValues
  /\ i.historyHypertension # {} /\ i.historyDiabetes # {} /\ i.historySmoking # {}
  /\ i.levelOfConsciousness # {} /\ The(i.levelOfConsciousness) \in LocValues
  /\ i.vomiting # {} /\ i.headache # {}
  /\ i.diastolicBloodPressure # {}

\* The output schema of the symptom-only version: confidenceLevel: z.number().
OutputSchemaOkUnbounded(o) == o.strokeType \in StrokeTypes

\* The output schema with every field optional.
OutputSchemaOkPartial(o) ==
  /\ "strokeType" \in o.missing \/ o.strokeType \in StrokeTypes
  /\ "confidence" \in o.missing \/ (o.confidence >= 0 /\ o.confidence <= 100)

\* PredictStrokeTypeOutputSchema: the enum, confidence: z.number().min(0).max(1),
\* tpaEligible: z.boolean(), action: z.string(); every field is required.
\* o.missing names the fields an answer lacks.
OutputSchemaOk(o) ==
  /\ o.missing = {}
  /\ o.strokeType \in StrokeTypes
  /\ o.confidence >= 0 /\ o.confidence <= 100

\* {{#if ctScanImage}}: the input carries an image; an empty string is none.
HasImage(i) == i.ctScanImage # {} /\ i.ctScanImage # {""}

\* The "Patient Information" and "Siriraj Score Data" sections of the prompt,
\* as rendered for an input.
RenderPrompt(i) ==
  [ ctScan |-> IF HasImage(i) THEN "media" ELSE "Not Provided",
    timeSinceOnset |-> i.timeSinceOnset,
    faceDroop |-> i.faceDroop,
    speechSlurred |-> i.speechSlurred,
    armWeakness |-> i.armWeakness,
    systolicBloodPressure |-> i.systolicBloodPressure,
    historyHypertension |-> i.historyHypertension,
    historyDiabetes |-> i.historyDiabetes,
    historySmoking |-> i.historySmoking,
    levelOfConsciousness |-> i.levelOfConsciousness,
    vomiting |-> i.vomiting,
    headache |-> i.headache,
    diastolicBloodPressure |-> i.diastolicBloodPressure ]

\* Method B as the prompt words it.  The model is sent this text; the flow
\* evaluates none of it.
\* LOC: 0 for Conscious, 1 for Drowsy, 2 for Comatose.
LocPoints(loc) ==
  CASE loc = "Conscious" -> 0
    [] loc = "Drowsy" -> 1
    [] loc = "Comatose" -> 2
    [] OTHER -> 0

BoolPoints(b) == IF b THEN 1 ELSE 0

\* A: 1 if the patient has a history of Hypertension OR Diabetes OR Smoking.
Atheroma(i) ==
  IF The(i.historyHypertension) \/ The(i.historyDiabetes) \/ The(i.historySmoking)
  THEN 1 ELSE 0

\* Score = (2.5 x LOC) + (2 x V) + (2 x H) + (0.1 x DBP) - (3 x A) - 12, in
\* hundredths; the diastolic pressure is in tenths of mmHg.
SirirajScore(i) ==
    250 * LocPoints(The(i.levelOfConsciousness))
  + 200 * BoolPoints(The(i.vomiting))
  + 200 * BoolPoints(The(i.headache))
  + The(i.diastolicBloodPressure)
  - 300 * Atheroma(i)
  - 1200

\* Interpret the score: > +1 Hemorrhagic, < -1 Ischemic, between -1 and +1
\* (inclusive) Uncertain.
InterpretScore(s) ==
  IF s > 100 THEN "Hemorrhagic" ELSE IF s < -100 THEN "Ischemic" ELSE "Uncertain"

SirirajDataPresent(i) ==
  /\ i.levelOfConsciousness # {} /\ i.vomiting # {} /\ i.headache # {}
  /\ i.diastolicBloodPressure # {}
  /\ i.historyHypertension # {} /\ i.historyDiabetes # {} /\ i.historySmoking # {}

\* The flow with the Siriraj interpretation overriding the model's verdict.
FlowOutputScoreOverrides(i, o) ==
  IF SirirajDataPresent(i)
  THEN [o EXCEPT !.strokeType = InterpretScore(SirirajScore(i))]
  ELSE o

\* predictStrokeTypeFlow: const {output} = await prompt(input); return output!
FlowOutput(i, o) == o

\* if (!prediction || !prediction.strokeType) throw
PredictionAccepted(o) == o.strokeType # ""

----------------------------------------------------------------------------
(* The inputs and the model's answers the specifications draw from.        *)

\* The raw record of the spec's worked example: Comatose, vomiting, headache,
\* diastolic 100, hypertension; no image, 269 minutes since onset.
RawBase ==
  [ ctScanImage |-> {},
    timeSinceOnset |-> {"269"},
    faceDroop |-> {TRUE},
    speechSlurred |-> {FALSE},
    armWeakness |-> {"None"},
    systolicBloodPressure |-> {},
    historyHypertension |-> {TRUE},
    historyDiabetes |-> {FALSE},
    historySmoking |-> {FALSE},
    levelOfConsciousness |-> {"Comatose"},
    vomiting |-> {TRUE},
    headache |-> {TRUE},
    diastolicBloodPressure |-> {"100"} ]

\* What each form field can hold instead.
RawAlternatives ==
  [ ctScanImage |-> {{"ct.png"}, {"scan.gif"}, {"huge.png"}},
    timeSinceOnset |-> {{"270"}, {""}, {}, {"-1"}, {"abc"}},
    faceDroop |-> {{FALSE}, {}},
    speechSlurred |-> {{TRUE}},
    armWeakness |-> {{"Left"}, {}, {"Severe"}},
    systolicBloodPressure |-> {{"150"}, {""}, {"0"}, {"-1"}, {"abc"}},
    historyHypertension |-> {{FALSE}, {}},
    historyDiabetes |-> {{TRUE}},
    historySmoking |-> {{TRUE}},
    levelOfConsciousness |-> {{"Drowsy"}, {"Conscious"}, {}, {"Asleep"}},
    vomiting |-> {{FALSE}, {}},
    headache |-> {{FALSE}, {}},
    diastolicBloodPressure |->
      {{"109.9"}, {"120"}, {"120.1"}, {""}, {}, {"-1"}, {"abc"}} ]

\* The records that differ from a record of rs in exactly one field of alts.
VaryOne(rs, alts) ==
  UNION { UNION { {[r EXCEPT ![f] = v] : v \in alts[f]} : f \in DOMAIN alts } : r \in rs }

RECURSIVE VaryUpTo(_, _, _)
VaryUpTo(rs, alts, n) ==
  IF n = 0 THEN rs ELSE VaryUpTo(rs \cup VaryOne(rs, alts), alts, n - 1)

\* The worked example with a CT image attached, and what its Siriraj fields
\* can hold instead.
RawImageBase == [RawBase EXCEPT !.ctScanImage = {"ct.png"}]

RawImageAlternatives ==
  [ levelOfConsciousness |-> {{}},
    diastolicBloodPressure |-> {{}, {""}},
    vomiting |-> {{}},
    headache |-> {{}} ]

RawInputs ==
       VaryUpTo({RawBase}, RawAlternatives, MaxVaried)
  \cup VaryUpTo({RawImageBase}, RawImageAlternatives, MaxVaried)

\* Inputs another caller of the exported server action can send; the page
\* cannot build the ones with a field missing or negative.
DirectBase == PredictionInput(ParsedData(RawBase), {})

DirectAlternatives ==
  [ ctScanImage |-> {{"data:image/png;base64,ct"}, {""}},
    timeSinceOnset |-> {{2700}, {}},
    systolicBloodPressure |-> {{1500}},
    historyHypertension |-> {{FALSE}},
    levelOfConsciousness |-> {{"Conscious"}, {}},
    vomiting |-> {{}},
    headache |-> {{}},
    diastolicBloodPressure |-> {{1200}, {-10}, {}} ]

DirectInputs == VaryUpTo({DirectBase}, DirectAlternatives, MaxVaried)

\* The first line of each of the four protocol texts of the prompt, and a text
\* that is none of them.
ActionTexts ==
  { "HEMORRHAGIC STROKE DETECTED - tPA CONTRAINDICATED",
    "ISCHEMIC STROKE: tPA ELIGIBLE",
    "ISCHEMIC STROKE: tPA NOT ELIGIBLE",
    "DIAGNOSIS UNCERTAIN - DO NOT ADMINISTER tPA",
    "Administer tPA under supervision" }

\* Task & Action Formulation: the protocol text the prompt prescribes for a
\* stroke type and an eligibility, by its first line.
ActionProtocol(strokeType, tpaEligible) ==
  CASE strokeType = "Hemorrhagic" -> "HEMORRHAGIC STROKE DETECTED - tPA CONTRAINDICATED"
    [] strokeType = "Ischemic" /\ tpaEligible -> "ISCHEMIC STROKE: tPA ELIGIBLE"
    [] strokeType = "Ischemic" /\ ~tpaEligible -> "ISCHEMIC STROKE: tPA NOT ELIGIBLE"
    [] OTHER -> "DIAGNOSIS UNCERTAIN - DO NOT ADMINISTER tPA"

\* Answers that satisfy the output schema: every stroke type and flag, with
\* the confidence varied under one action text and the action text varied
\* under one confidence.
ValidObjects ==
  [ strokeType : StrokeTypes,
    confidence : {0, 45, 70, 90, 100},
    tpaEligible : BOOLEAN,
    action : {"ISCHEMIC STROKE: tPA ELIGIBLE"},
    missing : {{}} ]
  \cup
  [ strokeType : StrokeTypes,
    confidence : {90},
    tpaEligible : BOOLEAN,
    action : ActionTexts,
    missing : {{}} ]

\* Answers that do not: a stroke type of the symptom-only version, a
\* confidence outside 0..1, an answer that lacks one of the four fields (the
\* lacking field reads as "", 0 or FALSE).
InvalidObjects ==
  [ strokeType : {"Likely Ischemic"},
    confidence : {90},
    tpaEligible : {FALSE},
    action : {"Administer tPA under supervision"},
    missing : {{}} ]
  \cup
  [ strokeType : {"Ischemic"},
    confidence : {-10, 150},
    tpaEligible : {TRUE},
    action : {"ISCHEMIC STROKE: tPA ELIGIBLE"},
    missing : {{}} ]
  \cup
  { [ strokeType |-> "", confidence |-> 90, tpaEligible |-> FALSE,
      action |-> "Administer tPA under supervision", missing |-> {"strokeType"} ],
    [ strokeType |-> "Ischemic", confidence |-> 0, tpaEligible |-> TRUE,
      action |-> "ISCHEMIC STROKE: tPA ELIGIBLE", missing |-> {"confidence"} ],
    [ strokeType |-> "Ischemic", confidence |-> 90, tpaEligible |-> FALSE,
      action |-> "ISCHEMIC STROKE: tPA ELIGIBLE", missing |-> {"tpaEligible"} ],
    [ strokeType |-> "Hemorrhagic", confidence |-> 90, tpaEligible |-> FALSE,
      action |-> "", missing |-> {"action"} ] }

NoObject ==
  [ strokeType |-> "", confidence |-> 0, tpaEligible |-> FALSE, action |-> "",
    missing |-> {"strokeType", "confidence", "tpaEligible", "action"} ]

\* What awaiting the prompt can end in: the call throws, the answer does not
\* parse (output is null), or the answer is an object.
Outcomes ==
       { [kind |-> "throws", out |-> NoObject], [kind |-> "null", out |-> NoObject] }
  \cup { [kind |-> "object", out |-> o] : o \in ValidObjects \cup InvalidObjects }

----------------------------------------------------------------------------
(* The state machine.                                                      *)

\* "idle": no evaluation; "reading": handlePredict awaits toDataURL;
\* "calling": handlePredict awaits predictStrokeType, while the request is on
\* its way, the flow runs and its return or throw is on its way back; then the
\* evaluation has ended: "rejected" by the form, "failed" in handlePredict's
\* catch, "done" with a result on the page.
Stages ==
  {"idle", "reading", "calling", "rejected", "failed", "done"}

Init ==
  /\ isLoading = FALSE
  /\ result = {}
  /\ toast = ""
  /\ formErrors = {}
  /\ pc = "idle"
  /\ raw = {}
  /\ call = {}
  /\ prompt = {}
  /\ answer = {}
  /\ flowOut = {}
  /\ flowErr = ""
  /\ prev = {}
  /\ flights = [k \in Flights |-> NoFlight]
  /\ weight = ""
  /\ doses = {}
  /\ clipboard = [shares |-> 0, writes |-> 0]

\* The page shows the loader: isLoading.
LoaderShown == isLoading

\* A form that is shown whenever there is no result, loader or not.
FormShownBesideLoader == result = {}

\* The page shows the symptom form: not loading, no result.
FormShown == ~isLoading /\ result = {}

\* The page shows the results: not loading, a result.
ResultsShown == ~isLoading /\ result # {}

\* A flow that renders and sends the prompt before its input is checked.
FlowStartThenCheck(i) ==
  [ ok |-> InputSchemaOk(i),
    prompt |-> {RenderPrompt(i)} ]

\* predictStrokeTypeFlow up to its await: the input schema is checked, then
\* the prompt is rendered and sent.  A rejected input throws before the model
\* is called.
FlowStart(i) ==
  IF InputSchemaOk(i)
  THEN [ok |-> TRUE, prompt |-> {RenderPrompt(i)}]
  ELSE [ok |-> FALSE, prompt |-> {}]

\* handlePredict calls predictStrokeType(predictionInput) and awaits it: the
\* request of the server action is on its way, the flow has not started.
InvokeFlow(i) ==
  /\ call' = {i}
  /\ answer' = {}
  /\ flowOut' = {}
  /\ prompt' = {}
  /\ pc' = "calling"
  /\ flowErr' = ""

\* The request of handlePredict's call has not reached the flow.
RequestInFlight == pc = "calling" /\ call # {} /\ prompt = {} /\ flowErr = ""

\* The flow of handlePredict's call awaits the model.
FlowAwaitsModel ==
  pc = "calling" /\ prompt # {} /\ answer = {} /\ flowOut = {} /\ flowErr = ""

\* The flow of handlePredict's call has returned or thrown, and handlePredict
\* has not yet resumed after its await.
ResponseInFlight == pc = "calling" /\ (flowOut # {} \/ flowErr # "")

\* A submit that is possible whatever the page shows, as from a form that
\* stays mounted and enabled while a prediction is pending.
SubmitFormAnytime(r) ==
  /\ pc \in {"idle", "reading", "calling"}
  /\ UNCHANGED <<flights, weight, doses, clipboard>>
  /\ raw' = {r}
  /\ formErrors' = FieldErrors(r)
  /\ IF FieldErrors(r) # {}
     THEN /\ call' = {} /\ prompt' = {} /\ answer' = {}
          /\ flowOut' = {} /\ flowErr' = ""
          /\ pc' = "rejected"
          /\ UNCHANGED <<isLoading, result, toast, prev>>
     ELSE /\ isLoading' = TRUE
          /\ result' = {}
          /\ UNCHANGED <<toast, prev>>
          /\ IF ParsedData(r).ctScanImage # {}
             THEN /\ pc' = "reading"
                  /\ call' = {} /\ prompt' = {} /\ answer' = {}
                  /\ flowOut' = {} /\ flowErr' = ""
             ELSE InvokeFlow(PredictionInput(ParsedData(r), {}))

\* form.handleSubmit(onSubmit): the resolver parses the raw record; on errors
\* onSubmit is not called.  Otherwise handlePredict runs to its first await.
SubmitForm(r) ==
  /\ pc = "idle"
  /\ UNCHANGED <<flights, weight, doses, clipboard>>
  /\ FormShown
  /\ raw' = {r}
  /\ formErrors' = FieldErrors(r)
  /\ IF FieldErrors(r) # {}
     THEN /\ call' = {} /\ prompt' = {} /\ answer' = {}
          /\ flowOut' = {} /\ flowErr' = ""
          /\ pc' = "rejected"
          /\ UNCHANGED <<isLoading, result, toast, prev>>
     ELSE /\ isLoading' = TRUE
          /\ result' = {}
          /\ UNCHANGED <<toast, prev>>
          /\ IF ParsedData(r).ctScanImage # {}
             THEN /\ pc' = "reading"
                  /\ call' = {} /\ prompt' = {} /\ answer' = {}
                  /\ flowOut' = {} /\ flowErr' = ""
             ELSE InvokeFlow(PredictionInput(ParsedData(r), {}))

\* toDataURL resolves: handlePredict builds predictionInput, calls
\* predictStrokeType and awaits it.
ImageRead ==
  /\ pc = "reading"
  /\ UNCHANGED <<flights, weight, doses, clipboard>>
  /\ InvokeFlow(PredictionInput(ParsedData(The(raw)),
                                {DataUrlOf(The(ParsedData(The(raw)).ctScanImage))}))
  /\ UNCHANGED <<isLoading, result, toast, formErrors, raw, prev>>

\* A catch that puts an empty diagnosis on the page.
PredictFailedWithPlaceholder ==
  /\ toast' = "Analysis Failed"
  /\ isLoading' = FALSE
  /\ result' = {[prediction |-> NoObject, uploadedImage |-> {}]}

\* A catch without the finally block: the loader stays.
PredictFailedStillLoading ==
  /\ toast' = "Analysis Failed"
  /\ isLoading' = isLoading
  /\ result' = result

\* A catch that logs the error and raises no toast.
PredictFailedSilently ==
  /\ toast' = toast
  /\ isLoading' = FALSE
  /\ result' = result

\* handlePredict's catch and finally.
PredictFailed ==
  /\ toast' = "Analysis Failed"
  /\ isLoading' = FALSE
  /\ result' = result

\* toDataURL rejects (reader.onerror).
ImageReadFails ==
  /\ pc = "reading"
  /\ UNCHANGED <<flights, weight, doses, clipboard>>
  /\ PredictFailed
  /\ pc' = "failed"
  /\ UNCHANGED <<formErrors, raw, call, prompt, answer, flowOut,
                 flowErr, prev>>

\* What one call of the flow ends with for input i when the model call ends
\* in oc: the diagnosis returned, or why it threw.
FlowResult(i, oc) ==
  LET out == FlowOutput(i, oc.out)
      ok == oc.kind = "object" /\ OutputSchemaOk(out)
  IN [ out |-> IF ok THEN {out} ELSE {},
       err |-> IF ok THEN "" ELSE IF oc.kind = "throws" THEN "model" ELSE "output" ]

\* The request reaches the server: predictStrokeTypeFlow runs up to its await.
FlowStarts ==
  /\ RequestInFlight
  /\ prompt' = FlowStart(The(call)).prompt
  /\ flowErr' = IF FlowStart(The(call)).ok THEN "" ELSE "input"
  /\ UNCHANGED <<isLoading, result, toast, formErrors, pc, raw, call, answer,
                 flowOut, prev, flights, weight, doses, clipboard>>

\* The flow with a fallback: when the model call throws for an input with an
\* image, the diagnosis is made from the Siriraj score instead.
FlowSettlesWithFallback(oc) ==
  /\ FlowAwaitsModel
  /\ LET i == The(call)
         fallback == oc.kind = "throws" /\ HasImage(i) /\ SirirajDataPresent(i)
         out == [ strokeType |-> InterpretScore(SirirajScore(i)),
                  confidence |-> 45,
                  tpaEligible |-> FALSE,
                  action |-> ActionProtocol(InterpretScore(SirirajScore(i)), FALSE),
                  missing |-> {} ]
     IN /\ answer' = IF oc.kind = "object" THEN {oc.out} ELSE {}
        /\ flowOut' = IF fallback THEN {out} ELSE FlowResult(i, oc).out
        /\ flowErr' = IF fallback THEN "model" ELSE FlowResult(i, oc).err
  /\ UNCHANGED <<isLoading, result, toast, formErrors, pc, raw, call, prompt,
                 prev, flights, weight, doses, clipboard>>

\* The await of the prompt settles with outcome oc; the flow returns output!,
\* which is checked against the output schema, or throws.
FlowSettles(oc) ==
  /\ FlowAwaitsModel
  /\ answer' = IF oc.kind = "object" THEN {oc.out} ELSE {}
  /\ flowOut' = FlowResult(The(call), oc).out
  /\ flowErr' = FlowResult(The(call), oc).err
  /\ UNCHANGED <<isLoading, result, toast, formErrors, pc, raw, call, prompt,
                 prev, flights, weight, doses, clipboard>>

\* handlePredict resumes after its await: with the diagnosis the flow
\* returned, checked for its strokeType, or in its catch; then finally.
HandlePredictResumes ==
  /\ ResponseInFlight
  /\ IF flowOut # {} /\ PredictionAccepted(The(flowOut))
     THEN /\ result' = {[ prediction |-> The(flowOut),
                          uploadedImage |-> The(call).ctScanImage ]}
          /\ isLoading' = FALSE
          /\ toast' = toast
          /\ pc' = "done"
     ELSE PredictFailed /\ pc' = "failed"
  /\ UNCHANGED <<formErrors, raw, call, prompt, answer, flowOut, flowErr, prev,
                 flights, weight, doses, clipboard>>

\* The finished evaluation, as the two-run specification remembers it.
Finished == {[input |-> The(call), output |-> The(flowOut)]}

\* handleReset (the results display's "New Diagnosis"): setResult(null).  The
\* evaluation's record is dropped with it; the two-run specification keeps it
\* in prev.
HandleReset(track) ==
  /\ pc = "done"
  /\ UNCHANGED <<flights, clipboard>>
  /\ weight' = "" /\ doses' = {}
  /\ ResultsShown
  /\ result' = {}
  /\ pc' = "idle"
  /\ prev' = IF track THEN Finished ELSE prev
  /\ raw' = {} /\ call' = {} /\ prompt' = {} /\ answer' = {}
  /\ flowOut' = {} /\ flowErr' = ""
  /\ UNCHANGED <<isLoading, toast, formErrors>>

\* A failed evaluation that is sent to the model again on its own.
Retry ==
  /\ pc = "failed"
  /\ UNCHANGED <<flights, weight, doses, clipboard>>
  /\ call # {}
  /\ pc' = "calling"
  /\ isLoading' = TRUE
  /\ flowErr' = ""
  /\ answer' = {} /\ flowOut' = {}
  /\ UNCHANGED <<result, toast, formErrors, raw, call, prompt, prev>>

\* An evaluation that ended without a result on the page is over: the user
\* sees the form again.
Forget ==
  /\ pc \in {"rejected", "failed"}
  /\ UNCHANGED <<flights, weight, doses, clipboard>>
  /\ pc' = "idle"
  /\ raw' = {} /\ call' = {} /\ prompt' = {} /\ answer' = {}
  /\ flowOut' = {} /\ flowErr' = ""
  /\ UNCHANGED <<isLoading, result, toast, formErrors, prev>>

\* The variables of the page.
pageVars == <<isLoading, result, toast, formErrors, pc, raw, call, prompt,
              answer, flowOut, flowErr, prev, weight, doses, clipboard>>

\* A flow that keeps the last diagnosis in a module variable and serves it to
\* whoever settles next.
FlightResultShared(fs, k, oc) ==
  LET others == {j \in DOMAIN fs : j # k /\ fs[j].out # {}}
  IN IF others # {}
     THEN [out |-> fs[CHOOSE j \in others : TRUE].out, err |-> ""]
     ELSE FlowResult(The(fs[k].input), oc)

\* What the call of caller k ends with: the flow reads its own input only.
FlightResult(fs, k, oc) == FlowResult(The(fs[k].input), oc)

\* Another caller, k, invokes the exported predictStrokeType(i), whatever the
\* page is doing: the flow checks the input and awaits the model, or throws.
Launch(k, i) ==
  /\ flights[k].stage = "none"
  /\ flights' = [flights EXCEPT ![k] =
                   [ NoFlight EXCEPT
                       !.stage = IF FlowStart(i).ok THEN "calling" ELSE "returned",
                       !.input = {i},
                       !.prompt = FlowStart(i).prompt,
                       !.err = IF FlowStart(i).ok THEN "" ELSE "input" ]]
  /\ UNCHANGED pageVars

\* The model call of caller k settles with oc; the flow returns or throws.
Settle(k, oc) ==
  /\ flights[k].stage = "calling"
  /\ flights' = [flights EXCEPT ![k] =
                   [ flights[k] EXCEPT
                       !.stage = "returned",
                       !.outcome = {oc},
                       !.out = FlightResult(flights, k, oc).out,
                       !.err = FlightResult(flights, k, oc).err ]]
  /\ UNCHANGED pageVars

\* Caller k has taken what its call returned or threw.
Collect(k) ==
  /\ flights[k].stage = "returned"
  /\ flights' = [flights EXCEPT ![k] = NoFlight]
  /\ UNCHANGED pageVars

\* The records of the two-run specification: the worked example with one
\* field changed.
PairAlternatives ==
  [ ctScanImage |-> {{"ct.png"}},
    timeSinceOnset |-> {{"270"}},
    systolicBloodPressure |-> {{"150"}},
    historyDiabetes |-> {{TRUE}},
    faceDroop |-> {{FALSE}},
    diastolicBloodPressure |-> {{"120"}} ]

PairRawInputs == VaryUpTo({RawBase}, PairAlternatives, 1)

\* No other caller has a call under way.
NoFlights == \A k \in Flights : flights[k].stage = "none"

\* How many promises of navigator.share, and of writeText, are pending at once.
MaxPending == 1

\* handleCopyToClipboard, which handleShare calls, up to its promise: with
\* navigator.clipboard (canCopy) writeText is called and one more promise is
\* pending in c; without it the call throws a TypeError and nothing follows.
HandleCopyToClipboard(c, canCopy) ==
  IF canCopy THEN [c EXCEPT !.writes = @ + 1] ELSE c

\* The Share button, up to the first await: with navigator.share (canShare)
\* the share sheet is pending, without it the summary goes to the clipboard.
\* No toast is raised yet.
HandleShare(canShare, canCopy) ==
  /\ ResultsShown
  /\ clipboard' = IF canShare
                  THEN [clipboard EXCEPT !.shares = @ + 1]
                  ELSE HandleCopyToClipboard(clipboard, canCopy)
  /\ clipboard'.shares <= MaxPending
  /\ clipboard'.writes <= MaxPending
  /\ UNCHANGED <<isLoading, result, toast, formErrors, pc, raw, call, prompt,
                 answer, flowOut, flowErr, prev, flights, weight, doses>>

\* navigator.share settles, whatever the page shows by then: resolved, nothing
\* more happens; rejected, handleShare's catch calls handleCopyToClipboard.
ShareSettles(shared, canCopy) ==
  /\ clipboard.shares > 0
  /\ clipboard' = IF shared
                  THEN [clipboard EXCEPT !.shares = @ - 1]
                  ELSE HandleCopyToClipboard([clipboard EXCEPT !.shares = @ - 1],
                                             canCopy)
  /\ clipboard'.writes <= MaxPending
  /\ UNCHANGED <<isLoading, result, toast, formErrors, pc, raw, call, prompt,
                 answer, flowOut, flowErr, prev, flights, weight, doses>>

\* writeText settles, whatever the page shows by then, and the toast tells
\* how: resolved (written) or rejected.
WriteSettles(written) ==
  /\ clipboard.writes > 0
  /\ clipboard' = [clipboard EXCEPT !.writes = @ - 1]
  /\ toast' = IF written THEN "Copied to clipboard" ELSE "Copy Failed"
  /\ UNCHANGED <<isLoading, result, formErrors, pc, raw, call, prompt,
                 answer, flowOut, flowErr, prev, flights, weight, doses>>

\* The page as it is loaded: the form, no errors, no toast, no promise of the
\* Share button pending.
PageFresh ==
  /\ pc = "idle" /\ formErrors = {} /\ toast = ""
  /\ clipboard = [shares |-> 0, writes |-> 0]

\* Spec takes the evaluations of the page and the calls of other callers one
\* at a time: the fresh page is offered every record, the page that shows the
\* errors or the toast of an earlier evaluation the records of the two-run
\* specification, and another caller makes its call while the page is fresh;
\* nothing starts while another caller's call is under way.  SpecConcurrent
\* interleaves the page and the other callers.
PageOffers ==
  IF ~NoFlights THEN {} ELSE IF PageFresh THEN RawInputs ELSE PairRawInputs

DirectOffers == IF PageFresh /\ NoFlights THEN DirectInputs ELSE {}

\* Spec has the Share button pressed on the results of the records of the
\* two-run specification.
ShareOffers == IF raw # {} /\ The(raw) \in PairRawInputs THEN BOOLEAN ELSE {}

Next ==
  \/ \E r \in PageOffers : SubmitForm(r)
  \/ ImageRead
  \/ ImageReadFails
  \/ FlowStarts
  \/ \E oc \in Outcomes : FlowSettles(oc)
  \/ HandlePredictResumes
  \/ HandleReset(FALSE)
  \/ Forget
  \/ \E k \in Flights : \E i \in DirectOffers : Launch(k, i)
  \/ \E k \in Flights : \E oc \in Outcomes : Settle(k, oc)
  \/ \E k \in Flights : Collect(k)
  \/ \E canShare \in ShareOffers : \E canCopy \in BOOLEAN : HandleShare(canShare, canCopy)
  \/ \E shared \in BOOLEAN : \E canCopy \in BOOLEAN : ShareSettles(shared, canCopy)
  \/ \E written \in BOOLEAN : WriteSettles(written)

Spec == Init /\ [][Next]_vars

----------------------------------------------------------------------------
(* Two evaluations in a row, the first remembered in prev.                 *)

PairOutcomes ==
       { [kind |-> "throws", out |-> NoObject] }
  \cup { [kind |-> "object", out |-> o] :
           o \in [ strokeType : StrokeTypes,
                   confidence : {45, 90},
                   tpaEligible : BOOLEAN,
                   action : { "ISCHEMIC STROKE: tPA ELIGIBLE",
                              "ISCHEMIC STROKE: tPA NOT ELIGIBLE" },
                   missing : {{}} ] }

NextPair ==
  \/ \E r \in PairRawInputs : SubmitForm(r)
  \/ ImageRead
  \/ ImageReadFails
  \/ FlowStarts
  \/ \E oc \in PairOutcomes : FlowSettles(oc)
  \/ HandlePredictResumes
  \/ HandleReset(TRUE)
  \/ Forget

SpecPair == Init /\ [][NextPair]_vars

----------------------------------------------------------------------------
(* The page's evaluation with the progress the code guarantees: the        *)
(* FileReader of toDataURL ends in onloadend or onerror, the request of the *)
(* server action reaches the flow and its response reaches handlePredict.  *)
(* Nothing bounds the await of the model call: neither handlePredict nor   *)
(* the flow sets a timeout, so no fairness is stated for FlowSettles.      *)

NextLive ==
  \/ \E r \in PairRawInputs : SubmitForm(r)
  \/ ImageRead
  \/ ImageReadFails
  \/ FlowStarts
  \/ \E oc \in PairOutcomes : FlowSettles(oc)
  \/ HandlePredictResumes
  \/ HandleReset(FALSE)
  \/ Forget

SpecLive ==
  /\ Init
  /\ [][NextLive]_vars
  /\ WF_vars(ImageRead \/ ImageReadFails)
  /\ WF_vars(FlowStarts)
  /\ WF_vars(HandlePredictResumes)

----------------------------------------------------------------------------
(* The page and several other callers of predictStrokeType at once.  Each  *)
(* call of the server action runs the flow on its own input; the module    *)
(* holds no variable that a call writes, and a call does not touch the     *)
(* page.  The steps of the page's own call and of its Share button (here  *)
(* without navigator.share, the copy succeeding) fall anywhere between the *)
(* steps of the other callers.                                             *)

ConcurrentRawInputs == {RawBase, [RawBase EXCEPT !.timeSinceOnset = {"abc"}]}

ConcurrentInputs ==
  { DirectBase,
    [DirectBase EXCEPT !.ctScanImage = {"data:image/png;base64,ct"}],
    [DirectBase EXCEPT !.diastolicBloodPressure = {}] }

ConcurrentOutcomes ==
  { [kind |-> "throws", out |-> NoObject],
    [kind |-> "object",
     out |-> [ strokeType |-> "Hemorrhagic", confidence |-> 90, tpaEligible |-> FALSE,
               action |-> "HEMORRHAGIC STROKE DETECTED - tPA CONTRAINDICATED",
               missing |-> {} ]],
    [kind |-> "object",
     out |-> [ strokeType |-> "Ischemic", confidence |-> 70, tpaEligible |-> TRUE,
               action |-> "ISCHEMIC STROKE: tPA ELIGIBLE", missing |-> {} ]],
    [kind |-> "object",
     out |-> [ strokeType |-> "Ischemic", confidence |-> 150, tpaEligible |-> TRUE,
               action |-> "ISCHEMIC STROKE: tPA ELIGIBLE", missing |-> {} ]] }

NextConcurrent ==
  \/ \E k \in Flights : \E i \in ConcurrentInputs : Launch(k, i)
  \/ \E k \in Flights : \E oc \in ConcurrentOutcomes : Settle(k, oc)
  \/ \E k \in Flights : Collect(k)
  \/ \E r \in ConcurrentRawInputs : SubmitForm(r)
  \/ FlowStarts
  \/ \E oc \in ConcurrentOutcomes : FlowSettles(oc)
  \/ HandlePredictResumes
  \/ HandleReset(FALSE)
  \/ Forget
  \/ HandleShare(FALSE, TRUE)
  \/ WriteSettles(TRUE)

SpecConcurrent == Init /\ [][NextConcurrent]_vars

-----------------------------------------------------------------------------
(* The results display: its tPA dosing calculator and its share and copy    *)
(* buttons.  Weights are in tenths of a kilogram, doses in hundredths of a  *)
(* milligram.                                                               *)

\* parseFloat of what the weight input can hold: tenths of a kilogram, {}
\* for NaN.
ParseFloat(s) ==
  CASE s = "0"    -> {0}
    [] s = "-5"   -> {-50}
    [] s = "0.5"  -> {5}
    [] s = "2.5"  -> {25}
    [] s = "11.5" -> {115}
    [] s = "70"   -> {700}
    [] s = "70.5" -> {705}
    [] s = "100"  -> {1000}
    [] s = "120"  -> {1200}
    [] OTHER      -> {}

Weights == {"", "0", "-5", "0.5", "2.5", "11.5", "70", "70.5", "100", "120"}

Min(a, b) == IF a <= b THEN a ELSE b

\* The total doses (of weights up to 120 kg given to the tenth) a tenth of
\* which ends in half a hundredth and is held by a double that lies below it.
BolusBelowHalf == {1035, 1845, 2025, 2295, 3465, 5715, 8055}

\* The same for nine tenths of the total dose.
InfusionBelowHalf ==
  { 225, 315, 1035, 2655, 2745, 2925, 3195, 3465, 3915, 4185, 4365, 4725, 5265,
    6165, 6705, 6975, 7155, 7245, 7605, 8325, 8955 }

\* parseFloat(x.toFixed(2)) in hundredths, of the double x that holds n / d
\* milligrams, n >= 0: the nearest hundredth, and of two equally near ones the
\* one the double lies nearer to.
ToFixed2(n, d, below) ==
  IF below THEN (100 * n) \div d ELSE (200 * n + d) \div (2 * d)

\* Math.min(weightKg * 0.9, 90), kept exact in hundredths of a milligram.
TotalDose(kg10) == Min(9 * kg10, 9000)

\* What handleCalculate leaves in doses for a weight: {} is null.
CalculatedDoses(w) ==
  IF ParseFloat(w) = {} \/ The(ParseFloat(w)) <= 0
  THEN {}
  ELSE LET totalDose == TotalDose(The(ParseFloat(w)))
       IN { [ total |-> ToFixed2(totalDose, 100, FALSE),
              bolus |-> ToFixed2(totalDose, 1000, totalDose \in BolusBelowHalf),
              infusion |-> ToFixed2(9 * totalDose, 1000,
                                    totalDose \in InfusionBelowHalf) ] }

\* ResultsDisplay renders the calculator: result.tpaEligible.
CalculatorShown == ResultsShown /\ The(result).prediction.tpaEligible

\* ResultsDisplay renders the green 'tPA Eligible' badge: result.tpaEligible.
TpaEligibleBadgeShown == ResultsShown /\ The(result).prediction.tpaEligible

\* The weight input's onChange: setWeight(e.target.value).
SetWeight(w) ==
  /\ CalculatorShown
  /\ weight' = w
  /\ UNCHANGED <<isLoading, result, toast, formErrors, pc, raw, call,
                 prompt, answer, flowOut, flowErr, prev, flights,
                 doses, clipboard>>

\* The Calculate button, or Enter in the weight input.
HandleCalculate ==
  /\ CalculatorShown
  /\ doses' = CalculatedDoses(weight)
  /\ toast' = IF CalculatedDoses(weight) = {} THEN "Invalid Weight" ELSE toast
  /\ UNCHANGED <<isLoading, result, formErrors, pc, raw, call, prompt,
                 answer, flowOut, flowErr, prev, flights, weight,
                 clipboard>>

NextCalculator ==
  \/ \E r \in PairRawInputs : SubmitForm(r)
  \/ ImageRead
  \/ ImageReadFails
  \/ FlowStarts
  \/ \E oc \in PairOutcomes : FlowSettles(oc)
  \/ HandlePredictResumes
  \/ \E w \in Weights : SetWeight(w)
  \/ HandleCalculate
  \/ \E canShare \in BOOLEAN : \E canCopy \in BOOLEAN : HandleShare(canShare, canCopy)
  \/ \E shared \in BOOLEAN : \E canCopy \in BOOLEAN : ShareSettles(shared, canCopy)
  \/ \E written \in BOOLEAN : WriteSettles(written)
  \/ HandleReset(FALSE)
  \/ Forget

SpecCalculator == Init /\ [][NextCalculator]_vars

----------------------------------------------------------------------------
(* The claims.                                                             *)

\* The tPA window of the prompt's Step 3, in minutes.
TpaWindowMinutes == 270

\* predictStrokeType returned a diagnosis for the input in call.
Produced == flowOut # {}

Assessment == The(call)

Diagnosis == The(flowOut)

\* The call of predictStrokeType the page made for its evaluation, if any.
PageCall ==
  IF call = {} THEN {}
  ELSE { [ input |-> The(call), prompt |-> prompt,
           answer |-> answer, out |-> flowOut, err |-> flowErr ] }

\* The object the model answered a call of another caller with, if any.
FlightAnswer(f) ==
  IF f.outcome # {} /\ The(f.outcome).kind = "object"
  THEN {The(f.outcome).out}
  ELSE {}

\* The calls of predictStrokeType the other callers made.
DirectCalls ==
  { [ input |-> The(flights[k].input), prompt |-> flights[k].prompt,
      answer |-> FlightAnswer(flights[k]),
      out |-> flights[k].out, err |-> flights[k].err ] :
      k \in {j \in Flights : flights[j].input # {}} }

\* Every call of predictStrokeType made and not yet forgotten.
Calls == PageCall \cup DirectCalls

\* C1: every diagnosis produced has tpaEligible true if and only if its stroke
\* type is Ischemic and the time since onset is below 270 minutes.
C1_EligibleIffIschemicInWindow ==
  \A c \in Calls :
    c.out # {} =>
      ( The(c.out).tpaEligible
        <=> ( The(c.out).strokeType = "Ischemic"
              /\ The(c.input.timeSinceOnset) < TpaWindowMinutes * 10 ) )

\* C2: two evaluations with the same stroke type and the same time since onset
\* have the same tpaEligible, whatever their other fields.
C2_EligibilityDependsOnlyOnTypeAndTime ==
  ( /\ prev # {}
    /\ Produced
    /\ The(prev).output.strokeType = Diagnosis.strokeType
    /\ The(prev).input.timeSinceOnset = Assessment.timeSinceOnset )
  => The(prev).output.tpaEligible = Diagnosis.tpaEligible

\* C3: the confidence of every diagnosis produced, and of every result the
\* page holds, lies in [0, 1], with an image and without.
C3_ConfidenceInUnitInterval ==
  /\ \A c \in Calls :
       c.out # {} => (The(c.out).confidence >= 0 /\ The(c.out).confidence <= 100)
  /\ result # {} =>
       ( The(result).prediction.confidence >= 0
         /\ The(result).prediction.confidence <= 100 )

\* C3 witness: a result on the image path with confidence exactly 1.
C3_Witness ==
  /\ pc = "done"
  /\ The(result).uploadedImage # {}
  /\ The(result).prediction.confidence = 100

\* C5: a diagnosis made from the Siriraj score, that is without an image,
\* has the stroke type the interpretation gives the score of its input:
\* above 1 Hemorrhagic, below -1 Ischemic, and from -1 to 1, both included,
\* Uncertain.
C5_InterpretThresholds ==
  \A c \in Calls :
    (c.out # {} /\ ~HasImage(c.input) /\ SirirajDataPresent(c.input)) =>
      LET sc == SirirajScore(c.input)
          t == The(c.out).strokeType
      IN /\ sc > 100 => t = "Hemorrhagic"
         /\ sc < -100 => t = "Ischemic"
         /\ (sc >= -100 /\ sc <= 100) => t = "Uncertain"

Abs(n) == IF n < 0 THEN -n ELSE n

\* C6: the confidence of a diagnosis lies inside the band of its evidence: on
\* the Siriraj path 0.85-0.95 for |score| > 2, 0.60-0.84 for 1 < |score| <= 2,
\* 0.40-0.59 for |score| <= 1; on the image path inside one of the three
\* clarity bands.
C6_ConfidenceInsideBand ==
  \A d \in Calls :
    d.out # {} =>
      LET c == The(d.out).confidence
      IN IF ~HasImage(d.input) /\ SirirajDataPresent(d.input)
         THEN LET a == Abs(SirirajScore(d.input))
              IN /\ a > 200 => (c >= 85 /\ c <= 95)
                 /\ (a > 100 /\ a <= 200) => (c >= 60 /\ c <= 84)
                 /\ a <= 100 => (c >= 40 /\ c <= 59)
         ELSE (c >= 80 /\ c <= 100) \/ (c >= 50 /\ c <= 79) \/ c < 50

\* C8: with an image, the stroke type of the diagnosis produced, and of the
\* result on the page, is the stroke type the model answered with.
C8_ImageVerdictPassedThrough ==
  /\ \A c \in Calls :
       (c.out # {} /\ HasImage(c.input)) =>
         The(c.out).strokeType = The(c.answer).strokeType
  /\ (pc = "done" /\ The(result).uploadedImage # {}) =>
       The(result).prediction.strokeType = The(answer).strokeType

\* C8 witness: a result on the image path says Ischemic where the Siriraj
\* score of the same input reads Hemorrhagic.
C8_Witness ==
  /\ pc = "done"
  /\ The(result).uploadedImage # {}
  /\ The(result).prediction.strokeType = "Ischemic"
  /\ InterpretScore(SirirajScore(Assessment)) = "Hemorrhagic"

\* C9: every diagnosis produced without an image comes from an input that
\* carried diastolicBloodPressure, levelOfConsciousness, vomiting and headache.
C9_SirirajFieldsPresent ==
  \A c \in Calls :
    (c.out # {} /\ ~HasImage(c.input)) =>
      /\ c.input.diastolicBloodPressure # {}
      /\ c.input.levelOfConsciousness # {}
      /\ c.input.vomiting # {}
      /\ c.input.headache # {}

\* C9 witness: a diagnosis produced without an image for another caller than
\* the page.
C9_Witness ==
  \E c \in DirectCalls :
    /\ c.out # {}
    /\ ~HasImage(c.input)
    /\ The(c.prompt).ctScan = "Not Provided"

\* C10: a raw record with no image and no diastolic pressure (the field
\* undefined or left blank) is rejected: it is never sent to the model and
\* no diagnosis is produced for it.
C10_MissingDiastolicRejected ==
  ( /\ raw # {}
    /\ The(raw).ctScanImage = {}
    /\ The(raw).diastolicBloodPressure \in {{}, {""}} )
  => ( /\ "diastolicBloodPressure" \in formErrors
       /\ pc = "rejected"
       /\ ~Produced )

\* An evaluation has been started and has not been forgotten.
Evaluating == pc # "idle"

\* The raw record r is valid in every field but the two named Siriraj fields.
ValidBesidesDbpAndLoc(r) ==
  FieldErrors(r) \subseteq {"diastolicBloodPressure", "levelOfConsciousness"}

\* C11 as stated: a raw record with an acceptable image that omits
\* diastolicBloodPressure and levelOfConsciousness and is otherwise valid passes
\* validation and goes on to the image path.
C11_ImageWaivesSirirajFields ==
  ( /\ raw # {}
    /\ The(raw).ctScanImage = {"ct.png"}
    /\ The(raw).diastolicBloodPressure = {}
    /\ The(raw).levelOfConsciousness = {}
    /\ ValidBesidesDbpAndLoc(The(raw)) )
  => (formErrors = {} /\ pc \in {"reading", "calling", "done", "failed"})

\* C11 amended: diastolicBloodPressure and levelOfConsciousness are required
\* with an image as without: a raw record that leaves either undefined is
\* rejected by the form with an error on that field and never reaches the
\* flow, and the flow throws on an input that lacks either, image or not.
C11_SirirajFieldsAlwaysRequired ==
  /\ (raw # {} /\ The(raw).diastolicBloodPressure = {}) =>
       ("diastolicBloodPressure" \in formErrors /\ pc = "rejected" /\ call = {})
  /\ (raw # {} /\ The(raw).levelOfConsciousness = {}) =>
       ("levelOfConsciousness" \in formErrors /\ pc = "rejected" /\ call = {})
  /\ \A c \in Calls :
       (c.input.diastolicBloodPressure = {} \/ c.input.levelOfConsciousness = {})
         => (c.err = "input" /\ c.prompt = {} /\ c.out = {})

\* C11 witness: a record with an acceptable image, both fields omitted and
\* nothing else wrong has been rejected.
C11_Witness ==
  /\ pc = "rejected"
  /\ The(raw).ctScanImage = {"ct.png"}
  /\ The(raw).diastolicBloodPressure = {}
  /\ The(raw).levelOfConsciousness = {}
  /\ formErrors = {"diastolicBloodPressure", "levelOfConsciousness"}

\* C12 as stated: a raw record without an image that omits vomiting or
\* headache is rejected by validation and never sent on to be scored.
C12_OmittedSymptomRejected ==
  ( /\ raw # {}
    /\ The(raw).ctScanImage = {}
    /\ (The(raw).vomiting = {} \/ The(raw).headache = {}) )
  => (pc = "rejected" /\ prompt = {} /\ ~Produced)

\* C12 amended: the form never rejects a record for an omitted vomiting or
\* headache; the omitted flag reaches the flow as false, and without an image
\* the model is given false for it in the Siriraj Score Data (V = 0 or H = 0).
C12_OmittedSymptomDefaultsToFalse ==
  /\ formErrors \cap {"vomiting", "headache"} = {}
  /\ (raw # {} /\ call # {} /\ The(raw).vomiting = {}) => Assessment.vomiting = {FALSE}
  /\ (raw # {} /\ call # {} /\ The(raw).headache = {}) => Assessment.headache = {FALSE}
  /\ ( raw # {} /\ prompt # {} /\ The(raw).ctScanImage = {} ) =>
       ( /\ The(raw).vomiting = {} => The(prompt).vomiting = {FALSE}
         /\ The(raw).headache = {} => The(prompt).headache = {FALSE} )

\* C12 witness: the worked example with vomiting omitted got a diagnosis,
\* the model having been given vomiting: false (a score of 2.0, not 4.0).
C12_Witness ==
  /\ pc = "done"
  /\ The(raw).ctScanImage = {}
  /\ The(raw).vomiting = {}
  /\ The(prompt).vomiting = {FALSE}
  /\ SirirajScore(Assessment) = 200

\* The strings of the form's number inputs that spell a non-negative number.
NonNegativeNumerals == {"0", "100", "109.9", "120", "120.1", "150", "269", "270"}

\* A number field the user put something in.
Supplied(x) == x # {} /\ x # {""}

NumericFields == {"timeSinceOnset", "systolicBloodPressure", "diastolicBloodPressure"}

\* Every supplied number of r is non-negative and both choices of r are among
\* their literals.
WellFormed(r) ==
  /\ \A f \in NumericFields : Supplied(r[f]) => The(r[f]) \in NonNegativeNumerals
  /\ r.armWeakness \in {{"None"}, {"Left"}, {"Right"}, {"Both"}}
  /\ r.levelOfConsciousness \in {{"Conscious"}, {"Drowsy"}, {"Comatose"}}

C14_NothingDefaultedButBooleans ==
  (raw # {} /\ call # {}) =>
    /\ \A f \in {"faceDroop", "speechSlurred", "historyHypertension", "historyDiabetes",
                  "historySmoking", "vomiting", "headache"} :
         The(raw)[f] = {} => Assessment[f] = {FALSE}
    /\ The(raw).systolicBloodPressure = {} => Assessment.systolicBloodPressure = {}
    /\ ~Supplied(The(raw).timeSinceOnset) => Assessment.timeSinceOnset = {}
    /\ ~Supplied(The(raw).diastolicBloodPressure) => Assessment.diastolicBloodPressure = {}
    /\ The(raw).systolicBloodPressure = {"0"} => Assessment.systolicBloodPressure = {0}

\* C15: the action of every diagnosis produced is the protocol text of its
\* (strokeType, tpaEligible) pair, one of the four texts of the prompt, so two
\* diagnoses with the same pair carry the same text.
C15_ActionIsProtocolOfPair ==
  \A c \in Calls :
    c.out # {} =>
      The(c.out).action = ActionProtocol(The(c.out).strokeType, The(c.out).tpaEligible)

\* C16: when the model call throws for an input with an image, the flow
\* throws: no diagnosis is produced and no answer stands in for the image
\* call's; on the page handlePredict, once it resumes, fails without a result
\* and without the loader, even when every Siriraj field is there; the same
\* when the image cannot be read; the step by which the evaluation fails
\* raises the "Analysis Failed" toast.
C16_ImageFailureNoFallback ==
  /\ [](\A c \in Calls :
          (HasImage(c.input) /\ c.err = "model") =>
            ( /\ c.out = {}
              /\ c.answer = {}
              /\ The(c.prompt).ctScan = "media" ))
  /\ []((call # {} /\ HasImage(Assessment) /\ flowErr = "model") =>
          ( /\ result = {}
            /\ ResponseInFlight \/ (pc = "failed" /\ ~isLoading) ))
  /\ [][( /\ call # {} /\ HasImage(Assessment) /\ flowErr = "model"
          /\ pc = "calling" /\ pc' # "calling" )
          => (pc' = "failed" /\ result' = {} /\ ~isLoading')]_vars
  /\ []((pc = "failed" /\ call = {}) =>
          (~Produced /\ prompt = {} /\ result = {}))
  /\ [][(pc # "failed" /\ pc' = "failed" /\ HasImage(The(raw')))
          => toast' = "Analysis Failed"]_vars

\* C16 witness: the model call threw for a form record with an image and all
\* the Siriraj data, and the evaluation failed.
C16_Witness ==
  /\ pc = "failed"
  /\ flowErr = "model"
  /\ HasImage(Assessment)
  /\ SirirajDataPresent(Assessment)
  /\ InterpretScore(SirirajScore(Assessment)) = "Hemorrhagic"

\* The stage of the engine the current evaluation is in.  Intake: nothing
\* submitted yet, or the record is being validated; Validated: the form's
\* schema passed and the image is being read; Routed: the prompt is with the
\* model, which classifies, calibrates, decides eligibility and writes the
\* protocol text in one answer; Done, Rejected, Failed: the three ends.
Stage ==
  CASE pc = "idle" -> "Intake"
    [] pc = "reading" -> "Validated"
    [] pc = "calling" -> IF prompt # {} THEN "Routed" ELSE "Validated"
    [] pc = "done" -> "Done"
    [] pc = "rejected" -> "Rejected"
    [] pc = "failed" -> "Failed"
    [] OTHER -> "Intake"

\* The same for a call of another caller: its input is refused by the flow's
\* schema, or it goes to the model.
FlightStage(f) ==
  CASE f.stage = "none" -> "Intake"
    [] f.stage = "calling" -> "Routed"
    [] f.stage = "returned" -> IF f.out # {} THEN "Done"
                               ELSE IF f.err = "input" THEN "Rejected" ELSE "Failed"
    [] OTHER -> "Intake"

\* The forward steps of the spec's state machine, a step of handlePredict up
\* to its next await counted as passing the stages in between; an ended
\* evaluation is left only for the Intake of the next one.
ForwardSteps ==
  { <<"Intake", "Validated">>, <<"Intake", "Routed">>, <<"Validated", "Routed">>,
    <<"Routed", "Done">>,
    <<"Intake", "Rejected">>, <<"Routed", "Failed">>,
    <<"Done", "Intake">>, <<"Rejected", "Intake">>, <<"Failed", "Intake">> }

\* C17 as stated: the stage changes only along Intake, Validated, Routed, ...,
\* Done, or by Intake -> Rejected or Routed -> Failed.
C17_StagesOnlyInSpecOrder ==
  [][/\ Stage' # Stage => <<Stage, Stage'>> \in ForwardSteps
     /\ \A k \in Flights :
          FlightStage(flights'[k]) # FlightStage(flights[k]) =>
            <<FlightStage(flights[k]), FlightStage(flights'[k])>> \in ForwardSteps]_vars

\* C17 amended: the stage changes only along Intake, Validated, Routed, Done,
\* or by Intake -> Rejected, Routed -> Failed, or Validated -> Failed (the image
\* cannot be read); an ended evaluation is never resumed.
C17_StagesForwardWithReadFailure ==
  [][/\ Stage' # Stage =>
          <<Stage, Stage'>> \in ForwardSteps \cup {<<"Validated", "Failed">>}
     /\ \A k \in Flights :
          FlightStage(flights'[k]) # FlightStage(flights[k]) =>
            <<FlightStage(flights[k]), FlightStage(flights'[k])>> \in ForwardSteps]_vars

\* C17 witness: an evaluation failed while its image was being read, before
\* anything was sent to the model.
C17_Witness ==
  /\ pc = "failed"
  /\ raw # {}
  /\ The(raw).ctScanImage = {"ct.png"}
  /\ call = {}
  /\ toast = "Analysis Failed"

\* C18: for a raw record the form rejects, and for an input the flow's schema
\* rejects, no prompt is rendered and no answer ever received; a rejected evaluation is not sent to the model afterwards.
C18_RejectedBeforeClassification ==
  /\ [](( raw # {} /\ formErrors # {} ) =>
         ( /\ pc = "rejected" /\ ~isLoading
           /\ call = {} /\ prompt = {} /\ answer = {} /\ ~Produced ))
  /\ [](\A c \in Calls :
          c.err = "input" =>
            (c.prompt = {} /\ c.answer = {} /\ c.out = {}))
  /\ [][(pc = "rejected" \/ flowErr = "input") =>
          ( /\ pc' # "reading" /\ (pc' = "calling" => pc = "calling")
            /\ prompt' = {} /\ answer' = {} )]_vars
  /\ [][\A k \in Flights :
          flights[k].err = "input" =>
            (flights'[k].stage # "calling" /\ flights'[k].prompt = {})]_vars

\* C18 witness: a record with an acceptable image and a non-numeric time has
\* been rejected, nothing read and nothing sent.
C18_Witness ==
  /\ pc = "rejected"
  /\ The(raw).ctScanImage = {"ct.png"}
  /\ The(raw).timeSinceOnset = {"abc"}
  /\ formErrors = {"timeSinceOnset"}
  /\ prompt = {}

OutputFields == {"strokeType", "confidence", "tpaEligible", "action"}

\* C19: a diagnosis the flow returns, and a result the page holds, lacks none
\* of strokeType, confidence, tpaEligible and action; when the model call
\* throws or its answer is refused the caller gets no diagnosis and the page
\* shows no result: handlePredict, once it resumes, fails.
C19_NoPartialResult ==
  /\ [](\A c \in Calls :
          c.out # {} =>
            ( /\ The(c.out).missing \cap OutputFields = {}
              /\ The(c.out).strokeType \in StrokeTypes ))
  /\ [](result # {} =>
          ( /\ The(result).prediction.missing \cap OutputFields = {}
            /\ The(result).prediction.strokeType \in StrokeTypes ))
  /\ [](\A c \in Calls : c.err \in {"model", "output"} => c.out = {})
  /\ [](flowErr \in {"model", "output"} =>
          (result = {} /\ (ResponseInFlight \/ pc = "failed")))
  /\ [][(flowErr \in {"model", "output"} /\ pc = "calling" /\ pc' # "calling")
          => (pc' = "failed" /\ result' = {})]_vars

\* C19 witness: with an image, the model answered without an action; the
\* answer was refused and the page shows no result.
C19_Witness ==
  /\ pc = "failed"
  /\ call # {}
  /\ HasImage(Assessment)
  /\ answer # {}
  /\ The(answer).missing = {"action"}
  /\ flowErr = "output"
  /\ result = {}

\* C20: when the same input without an image is evaluated a second time, the
\* diagnosis produced is the one produced the first time, field for field.
C20_SirirajPathIdempotent ==
  ( /\ prev # {}
    /\ Produced
    /\ ~HasImage(Assessment)
    /\ The(prev).input = Assessment )
  => The(prev).output = Diagnosis

\* C21: with several calls of predictStrokeType under way at once, each call
\* ends with what its own input and its own model answer give when run alone,
\* and a step of one call leaves every other call, and the page, as it was;
\* the page's result is what its own call gives.
C21_ConcurrentCallsIndependent ==
  /\ [](\A k \in Flights :
          (flights[k].stage = "returned" /\ flights[k].outcome # {}) =>
            ( /\ flights[k].out = FlowResult(The(flights[k].input), The(flights[k].outcome)).out
              /\ flights[k].err = FlowResult(The(flights[k].input), The(flights[k].outcome)).err ))
  /\ [][\A k, j \in Flights :
          (k # j /\ flights'[k] # flights[k]) => flights'[j] = flights[j]]_vars
  /\ [][flights' # flights => pageVars' = pageVars]_vars
  /\ [][pageVars' # pageVars => flights' = flights]_vars
  /\ [](result # {} =>
          The(result).prediction
            = The(FlowResult(The(call), [kind |-> "object", out |-> The(answer)]).out))

\* C21 witness: while the page awaits its own call, one caller's call was
\* refused for its answer and another's, made with another input, got a
\* diagnosis.
C21_Witness ==
  /\ pc = "calling"
  /\ flights[1].stage = "returned"
  /\ flights[1].err = "output"
  /\ flights[2].stage = "returned"
  /\ flights[2].out # {}
  /\ The(flights[2].out).strokeType = "Ischemic"
  /\ flights[1].input # flights[2].input

\* C22: every evaluation that has been started eventually ends: done,
\* rejected or failed.
C22_EveryEvaluationEnds ==
  (pc \in {"reading", "calling"}) ~> (pc \in {"done", "rejected", "failed"})

\* C24 as stated, for the kinds the form reports: a missing diastolic
\* pressure (MissingDataError) is told apart from a malformed one
\* (ValidationError) by what the caller is shown.
C24_ErrorKindsDistinguishable ==
  ( /\ pc = "rejected"
    /\ The(raw).diastolicBloodPressure = {} )
  => \A x \in {{"abc"}, {"-1"}} :
       DiastolicMessage(The(raw).diastolicBloodPressure) # DiastolicMessage(x)

\* C24 amended: every evaluation that ends in an error shows it: a rejected
\* record has field errors, a failed evaluation raises the "Analysis Failed"
\* toast as it fails and has no result and no loader, another caller's
\* throwing call returns no diagnosis; a result is on the page only when the
\* flow threw nothing; and an evaluation that ended in an error is not run
\* again.
C24_ErrorsReportedNeverSwallowed ==
  /\ [](pc = "rejected" => (formErrors # {} /\ result = {} /\ ~isLoading))
  /\ [](pc = "failed" => (result = {} /\ ~isLoading))
  /\ [][(pc # "failed" /\ pc' = "failed")
          => (toast' = "Analysis Failed" /\ ~isLoading')]_vars
  /\ [](\A c \in DirectCalls : c.err # "" => c.out = {})
  /\ [](result # {} => (pc = "done" /\ flowErr = ""))
  /\ [][(pc \in {"rejected", "failed"}) => (pc' \in {pc, "idle"})]_vars

\* C24 witness: the model answered with a stroke type outside the enum; the
\* evaluation failed with the toast.
C24_Witness ==
  /\ pc = "failed"
  /\ flowErr = "output"
  /\ answer # {}
  /\ The(answer).strokeType = "Likely Ischemic"
  /\ toast = "Analysis Failed"

\* C25: in every diagnosis produced the flag, the stroke type and the text
\* agree: the tPA-administration text comes only with Ischemic and
\* tpaEligible true, the Hemorrhagic and the Uncertain text only with their
\* stroke type and tpaEligible false.
C25_FlagTypeAndTextAgree ==
  \A c \in Calls :
    c.out # {} =>
      /\ The(c.out).action = "ISCHEMIC STROKE: tPA ELIGIBLE" =>
           (The(c.out).tpaEligible /\ The(c.out).strokeType = "Ischemic")
      /\ The(c.out).action = "HEMORRHAGIC STROKE DETECTED - tPA CONTRAINDICATED" =>
           (~The(c.out).tpaEligible /\ The(c.out).strokeType = "Hemorrhagic")
      /\ The(c.out).action = "DIAGNOSIS UNCERTAIN - DO NOT ADMINISTER tPA" =>
           (~The(c.out).tpaEligible /\ The(c.out).strokeType = "Uncertain")

\* C26: while handlePredict awaits the image or the prediction, isLoading is
\* true and result is null; once it has ended, with a result or in its catch,
\* isLoading is false; a rejected submit never sets it.
C26_LoadingBracketsThePrediction ==
  /\ pc \in {"reading", "calling"} => (isLoading /\ result = {})
  /\ pc \in {"done", "failed"} => ~isLoading
  /\ pc \in {"idle", "rejected"} => ~isLoading

\* C26 witness: the prediction call rejected for a record without an image,
\* and the loader is gone.
C26_Witness ==
  /\ pc = "failed"
  /\ flowErr = "model"
  /\ ~HasImage(Assessment)
  /\ ~isLoading

\* C27: after a failed handlePredict result is null, and the step by which it
\* fails raises the "Analysis Failed" toast, whatever toast was up before;
\* result is non-null only as the diagnosis the flow returned for
\* the current evaluation, with a stroke type, together with the image that
\* was sent; a failure never brings a result back.
C27_ResultOnlyFromReturnedDiagnosis ==
  /\ [](pc = "failed" => result = {})
  /\ [][(pc # "failed" /\ pc' = "failed")
          => (toast' = "Analysis Failed" /\ result' = {})]_vars
  /\ [](result # {} =>
          ( /\ Produced
            /\ The(result).prediction = Diagnosis
            /\ Diagnosis.strokeType \in StrokeTypes
            /\ The(result).uploadedImage = Assessment.ctScanImage ))
  /\ [][(result = {} /\ result' # {}) => (pc = "calling" /\ pc' = "done")]_vars

\* C27 witness: the answer carried a confidence of 1.5; the evaluation failed,
\* no result is shown.
C27_Witness ==
  /\ pc = "failed"
  /\ answer # {}
  /\ The(answer).confidence = 150
  /\ result = {}
  /\ toast = "Analysis Failed"

\* handlePredict has been called by the page and has not ended.
Pending == pc \in {"reading", "calling"}

\* C28: while a prediction of the page is pending the loader is shown, not
\* the form and not the results; a record is submitted only from the form
\* when nothing is pending, so there is one request at a time and a result
\* is set only by the request that is pending.
C28_OneRequestAtATime ==
  /\ [](Pending => (isLoading /\ ~FormShown /\ ~ResultsShown))
  /\ [][(raw' # {} /\ (raw' # raw \/ (pc' # pc /\ pc' \in {"rejected", "reading"})))
          => (~Pending /\ FormShown)]_vars
  /\ [][(result' # {} /\ result' # result) => (Pending /\ result = {})]_vars

\* C28 witness: a prediction with an image is pending and the loader is shown.
C28_Witness ==
  /\ Pending
  /\ pc = "calling"
  /\ HasImage(Assessment)
  /\ isLoading
  /\ ~FormShown

\* What the page shows.
Shown ==
  (IF LoaderShown THEN {"loader"} ELSE {})
    \cup (IF ResultsShown THEN {"results"} ELSE {})
    \cup (IF FormShown THEN {"form"} ELSE {})

\* C29: the page always shows exactly one of loader, results and form: the
\* loader iff isLoading, the results iff not loading with a result, the form
\* otherwise; a reset happens only while the results are shown, sets result
\* to null and leaves isLoading as it is.
C29_OneViewAndReset ==
  /\ [](/\ Cardinality(Shown) = 1
        /\ ("loader" \in Shown) = isLoading
        /\ ("results" \in Shown) = (~isLoading /\ result # {})
        /\ ("form" \in Shown) = ~(isLoading \/ result # {}))
  /\ [](ENABLED HandleReset(FALSE) => Shown = {"results"})
  /\ [][(result # {} /\ result' = {})
          => (/\ Shown = {"results"}
              /\ isLoading' = isLoading
              /\ Shown' = {"form"})]_vars

\* C29 witness: the results are shown after a prediction and can be reset.
C29_Witness ==
  /\ pc = "done"
  /\ Shown = {"results"}
  /\ ENABLED HandleReset(FALSE)
  /\ The(result).prediction.strokeType \in StrokeTypes

\* The doses the claim gives for a weight: total min(0.9 x weight, 90) mg, at
\* most 90 mg, bolus 10% and infusion 90% of it to the nearest hundredth;
\* null for a weight that is not a number or is not positive.
DosesAsClaimed(w, d) ==
  IF ParseFloat(w) = {} \/ The(ParseFloat(w)) <= 0
  THEN d = {}
  ELSE /\ d # {}
       /\ The(d).total = Min(9 * The(ParseFloat(w)), 9000)
       /\ The(d).total <= 9000
       /\ Abs(10 * The(d).bolus - The(d).total) <= 5
       /\ Abs(10 * The(d).infusion - 9 * The(d).total) <= 5

\* A step of handleCalculate that changed something.
Calculated ==
  /\ CalculatorShown /\ CalculatorShown'
  /\ weight' = weight
  /\ doses' # doses \/ (toast' # toast /\ toast' = "Invalid Weight")

\* C30: the calculator and the 'tPA Eligible' badge are shown only for an
\* Ischemic result; a calculation leaves in doses min(0.9 x weight, 90) mg
\* split 10% / 90% for a positive weight, and null for any other weight.
C30_CalculatorOnlyForIschemic ==
  /\ []((CalculatorShown \/ TpaEligibleBadgeShown)
         => The(result).prediction.strokeType = "Ischemic")
  /\ [][Calculated => DosesAsClaimed(weight, doses')]_vars

\* The doses part of C30 alone.
C30_DosesOnly ==
  [][Calculated => DosesAsClaimed(weight, doses')]_vars

====
